---- MODULE Spec2Model ----
(***************************************************************************)
(* The to-do list REST API of todos.py: an in-memory list of to-do items,  *)
(* five request handlers and the HAL-style representations they return.    *)
(* One action per handler; a request is handled from start to end before   *)
(* the next one (Flask's synchronous handlers, one at a time).             *)
(***************************************************************************)
EXTENDS Integers, Sequences, FiniteSets, TLC

VARIABLES
    todos,      \* the global list `todos`
    op,         \* the handler that answered the last request
    req,        \* the last request: its path parameter, query arguments and JSON body
    status,     \* the status code of the last response
    body,       \* the JSON payload of the last response
    issued,     \* history: every id an item has ever carried
    created,    \* history: number of successful Create requests
    walk,       \* history: the pages a client has collected by following next links
    heap,       \* threaded server: the item dicts, by address
    refs,       \* threaded server: the global list `todos` as addresses of dicts
    threads,    \* threaded server: each worker's position and local variables
    version     \* history: number of times the global list was appended to or rebound

vars == <<todos, op, req, status, body, issued, created, walk, heap, refs, threads,
          version>>

-----------------------------------------------------------------------------
(* Bounds of the model *)

\* successful Create requests in one behaviour
MaxCreate == 2
\* largest offset of a List request below the end-of-store offsets
MaxOffset == 2
\* largest explicit size of a List request
MaxSize == 2
\* requests one thread of the threaded server handles in one behaviour
MaxServed == 2

-----------------------------------------------------------------------------
(* The store *)

InitialTodos ==
    << [id |-> 1,  task |-> "Learn Flask", done |-> FALSE],
       [id |-> 2,  task |-> "Build a REST API", done |-> FALSE],
       [id |-> 3,  task |-> "Test the API", done |-> FALSE],
       [id |-> 4,  task |-> "Watch another course from Kesha", done |-> FALSE],
       [id |-> 5,  task |-> "Learn Laravel", done |-> FALSE],
       [id |-> 6,  task |-> "Build a GraphQL API", done |-> FALSE],
       [id |-> 7,  task |-> "Learn Java Spring", done |-> FALSE],
       [id |-> 8,  task |-> "Build a gRPC API", done |-> FALSE],
       [id |-> 9,  task |-> "Learn .NET", done |-> FALSE],
       [id |-> 10, task |-> "Build a SOAP API", done |-> FALSE],
       [id |-> 11, task |-> "Learn Django", done |-> FALSE],
       [id |-> 12, task |-> "Document an API", done |-> FALSE],
       [id |-> 13, task |-> "Learn Node.js", done |-> FALSE],
       [id |-> 14, task |-> "Secure an API", done |-> FALSE],
       [id |-> 15, task |-> "Learn Next.js", done |-> FALSE],
       [id |-> 16, task |-> "Build a WebSockets connection", done |-> FALSE] >>

\* the ids of the items of a list
Ids(ts) == {ts[i].id : i \in 1..Len(ts)}

\* Python's max() of a non-empty set of integers
Max(S) == CHOOSE m \in S : \A n \in S : n <= m

\* a removal by position in the list instead of by id
without_by_position(ts, todo_id) ==
    IF todo_id \in 1..Len(ts)
    THEN SubSeq(ts, 1, todo_id - 1) \o SubSeq(ts, todo_id + 1, Len(ts))
    ELSE ts

\* Python's [t for t in ts if keep(t)], for keep(t) == t.id # todo_id
RECURSIVE without(_, _)
without(ts, todo_id) ==
    IF ts = << >> THEN << >>
    ELSE IF Head(ts).id # todo_id
         THEN <<Head(ts)>> \o without(Tail(ts), todo_id)
         ELSE without(Tail(ts), todo_id)

\* Python's s[start:stop] for a list and two integers: a negative index counts
\* from the end, and both ends are clipped to the list
SliceIndex(n, i) == IF i < 0 THEN (IF i + n < 0 THEN 0 ELSE i + n)
                    ELSE (IF i > n THEN n ELSE i)

PySlice(s, start, stop) ==
    LET lo == SliceIndex(Len(s), start)
        hi == SliceIndex(Len(s), stop)
    IN  IF lo < hi THEN SubSeq(s, lo + 1, hi) ELSE << >>

\* a lookup by position in the list instead of by id
find_todo_by_position(ts, todo_id) == IF todo_id \in 1..Len(ts) THEN todo_id ELSE 0

\* find_todo: the first item of the list with that id (its position, since the
\* handlers mutate the item in place), or 0 for None
find_todo(ts, todo_id) ==
    IF \E i \in 1..Len(ts) : ts[i].id = todo_id
    THEN CHOOSE i \in 1..Len(ts) :
            ts[i].id = todo_id /\ \A j \in 1..(i - 1) : ts[j].id # todo_id
    ELSE 0

-----------------------------------------------------------------------------
(* Requests *)

\* A query argument as werkzeug sees it: absent, present but not an integer,
\* or present with an integer value
NoArg == [given |-> FALSE, isint |-> FALSE, val |-> 0]
BadArg == [given |-> TRUE, isint |-> FALSE, val |-> 0]
IntArg(n) == [given |-> TRUE, isint |-> TRUE, val |-> n]

\* request.args.get(name, default=d, type=int): the default when the argument
\* is absent or fails int()
args_get(arg, default) == IF arg.given /\ arg.isint THEN arg.val ELSE default

\* request.json: a JSON object with any of the keys task and done
EmptyObject == [k \in {} |-> k]
NewTasks == {"", "Buy milk"}
JsonBodies ==
    {EmptyObject, [done |-> TRUE], [task |-> "Buy milk", done |-> TRUE]}
    \cup {[task |-> t] : t \in NewTasks}

\* data.get(key, default)
dict_get(data, key, default) == IF key \in DOMAIN data THEN data[key] ELSE default

\* ids the requests address: the last initial item and the first id that is
\* free initially
TodoIds == {16, 17}

OffsetArgs(n) == {NoArg, BadArg} \cup {IntArg(i) : i \in (-1..MaxOffset) \cup {n - 1, n}}
SizeArgs == {NoArg, BadArg} \cup {IntArg(i) : i \in 0..MaxSize}

NoRequest == [todo_id |-> 0, offset |-> NoArg, size |-> NoArg, data |-> EmptyObject]

-----------------------------------------------------------------------------
(* HATEOAS helpers *)

\* flask.url_for(endpoint, **values, _external=True): the URL of a route,
\* kept as the route and the values it was built from
url_for(endpoint, values) == [endpoint |-> endpoint, values |-> values]

\* the value a link's URL carries for a parameter
LinkValue(link, name) == (CHOOSE p \in link.href.values : p[1] = name)[2]

add_todo_links(todo) ==
    [id |-> todo.id, task |-> todo.task, done |-> todo.done,
     _links |-> [self |-> [href |-> url_for("get_todo", {<<"todo_id", todo.id>>})],
                 update |-> [href |-> url_for("update_todo", {<<"todo_id", todo.id>>})],
                 delete |-> [href |-> url_for("delete_todo", {<<"todo_id", todo.id>>})],
                 collection |-> [href |-> url_for("get_todos", {})]]]

\* a previous page computed without the floor at zero
prev_offset_unclamped(offset, size) == offset - size

prev_offset(offset, size) == IF offset - size > 0 THEN offset - size ELSE 0

\* a next page that starts one item too far
next_offset_skip(offset, size) == offset + size + 1

next_offset(offset, size) == offset + size

has_prev(offset) == offset > 0

\* a next link offered up to and including the end of the store
has_next_inclusive(offset, size, total_items) == offset + size <= total_items

has_next(offset, size, total_items) == offset + size < total_items

add_collection_links(items, offset, size, total_items) ==
    LET page_url(o) == url_for("get_todos", {<<"offset", o>>, <<"size", size>>})
        rels == {"self", "create"}
                \cup (IF has_prev(offset) THEN {"prev"} ELSE {})
                \cup (IF has_next(offset, size, total_items) THEN {"next"} ELSE {})
        links == [r \in rels |->
                    CASE r = "self" -> [href |-> page_url(offset)]
                      [] r = "create" -> [href |-> url_for("create_todo", {})]
                      [] r = "prev" -> [href |-> page_url(prev_offset(offset, size))]
                      [] r = "next" -> [href |-> page_url(next_offset(offset, size))]]
    IN  [_links |-> links,
         _embedded |-> [todos |-> [i \in 1..Len(items) |-> add_todo_links(items[i])]],
         page |-> [offset |-> offset, size |-> size, total_items |-> total_items]]

-----------------------------------------------------------------------------
(* Routes *)

\* a validation that lets a size of zero through
invalid_pagination_negative(offset, size) == offset < 0 \/ size < 0

invalid_pagination(offset, size) == offset < 0 \/ size <= 0

\* a window that takes the size for the end index
paged_items_to_size(ts, offset, size) == PySlice(ts, offset, size)

paged_items(ts, offset, size) == PySlice(ts, offset, offset + size)

\* a total counted after the window was taken
collection_windowed_total(ts, offset, size) ==
    add_collection_links(paged_items(ts, offset, size), offset, size,
                         Len(paged_items(ts, offset, size)))

\* total_items = len(todos), taken before the window, and the representation
\* of the window
collection(ts, offset, size) ==
    add_collection_links(paged_items(ts, offset, size), offset, size, Len(ts))

\* GET /todos
get_todos(offsetArg, sizeArg) ==
    LET offset == args_get(offsetArg, 0)
        size == args_get(sizeArg, 5)
    IN  /\ op' = "get_todos"
        /\ req' = [NoRequest EXCEPT !.offset = offsetArg, !.size = sizeArg]
        /\ IF invalid_pagination(offset, size)
           THEN /\ status' = 400
                /\ body' = [error |-> "Invalid pagination parameters. Offset must be >= 0 and size must be > 0."]
           ELSE /\ status' = 200
                /\ body' = collection(todos, offset, size)
        /\ UNCHANGED <<todos, issued, created>>

\* GET /todos/<int:todo_id>
get_todo(todo_id) ==
    LET todo == find_todo(todos, todo_id)
    IN  /\ op' = "get_todo"
        /\ req' = [NoRequest EXCEPT !.todo_id = todo_id]
        /\ IF todo = 0
           THEN /\ status' = 404
                /\ body' = [error |-> "To-do item not found"]
           ELSE /\ status' = 200
                /\ body' = add_todo_links(todos[todo])
        /\ UNCHANGED <<todos, issued, created>>

\* an id taken from the number of items instead of the largest id
new_id_by_length(ts) == Len(ts) + 1

new_id(ts) == IF ts # << >> THEN Max(Ids(ts)) + 1 ELSE 1

\* a new item that ignores the done value of the request
new_todo_not_done(ts, data) ==
    [id |-> new_id(ts), task |-> data.task, done |-> FALSE]

new_todo(ts, data) ==
    [id |-> new_id(ts), task |-> data.task, done |-> dict_get(data, "done", FALSE)]

task_required(data) == data = EmptyObject \/ "task" \notin DOMAIN data

\* a Create that stores the item before it validates the request
create_todo_append_first(data) ==
    /\ op' = "create_todo"
    /\ req' = [NoRequest EXCEPT !.data = data]
    /\ created < MaxCreate
    /\ todos' = Append(todos, [id |-> new_id(todos),
                               task |-> dict_get(data, "task", ""),
                               done |-> dict_get(data, "done", FALSE)])
    /\ issued' = issued \cup {new_id(todos)}
    /\ created' = created + 1
    /\ IF task_required(data)
       THEN /\ status' = 400
            /\ body' = [error |-> "Task description is required"]
       ELSE /\ status' = 201
            /\ body' = [message |-> "To-do item created",
                        todo |-> add_todo_links(new_todo(todos, data))]

\* POST /todos
create_todo(data) ==
    /\ op' = "create_todo"
    /\ req' = [NoRequest EXCEPT !.data = data]
    /\ IF task_required(data)
       THEN /\ status' = 400
            /\ body' = [error |-> "Task description is required"]
            /\ UNCHANGED <<todos, issued, created>>
       ELSE /\ created < MaxCreate
            /\ todos' = Append(todos, new_todo(todos, data))
            /\ status' = 201
            /\ body' = [message |-> "To-do item created",
                        todo |-> add_todo_links(new_todo(todos, data))]
            /\ issued' = issued \cup {new_id(todos)}
            /\ created' = created + 1

\* a merge that resets done when the request does not provide it
merged_done_default(todo, data) ==
    [id |-> todo.id,
     task |-> dict_get(data, "task", todo.task),
     done |-> dict_get(data, "done", FALSE)]

merged(todo, data) ==
    [id |-> todo.id,
     task |-> dict_get(data, "task", todo.task),
     done |-> dict_get(data, "done", todo.done)]

\* PUT /todos/<int:todo_id>
update_todo(todo_id, data) ==
    LET todo == find_todo(todos, todo_id)
    IN  /\ op' = "update_todo"
        /\ req' = [NoRequest EXCEPT !.todo_id = todo_id, !.data = data]
        /\ IF todo = 0
           THEN /\ status' = 404
                /\ body' = [error |-> "To-do item not found"]
                /\ UNCHANGED todos
           ELSE /\ todos' = [todos EXCEPT ![todo] = merged(todos[todo], data)]
                /\ status' = 200
                /\ body' = [message |-> "To-do item updated",
                            todo |-> add_todo_links(merged(todos[todo], data))]
        /\ UNCHANGED <<issued, created>>

\* DELETE /todos/<int:todo_id>
delete_todo(todo_id) ==
    /\ op' = "delete_todo"
    /\ req' = [NoRequest EXCEPT !.todo_id = todo_id]
    /\ todos' = without(todos, todo_id)
    /\ status' = 200
    /\ body' = [message |-> "To-do item deleted",
                _links |-> [collection |-> [href |-> url_for("get_todos", {})]]]
    /\ UNCHANGED <<issued, created>>

-----------------------------------------------------------------------------
(* Specifications *)

NoResponse == [message |-> "none"]

\* no client is following next links
NoWalk == [active |-> FALSE, items |-> << >>, pages |-> 0]

\* the module's globals after import, no request handled yet
Init ==
    /\ todos = InitialTodos
    /\ op = "none"
    /\ req = NoRequest
    /\ status = 0
    /\ body = NoResponse
    /\ issued = Ids(InitialTodos)
    /\ created = 0
    /\ walk = NoWalk
    /\ heap = << >> /\ refs = << >> /\ threads = << >> /\ version = 0

\* the item representations the last response carries
ItemReps ==
    CASE op = "get_todo" /\ status = 200 -> {body}
      [] op = "get_todos" /\ status = 200 ->
            {body._embedded.todos[i] : i \in 1..Len(body._embedded.todos)}
      [] op = "create_todo" /\ status = 201 -> {body.todo}
      [] op = "update_todo" /\ status = 200 -> {body.todo}
      [] OTHER -> {}

\* the ids a client reaches by following the self link of one of them
LinkedIds ==
    {LinkValue(r._links.self, "todo_id") :
        r \in {q \in ItemReps : q._links.self.href.endpoint = "get_todo"}}

Next ==
    \/ (\E o \in OffsetArgs(Len(todos)), s \in SizeArgs : get_todos(o, s))
                /\ UNCHANGED <<walk, heap, refs, threads, version>>
    \/ (\E i \in TodoIds \cup LinkedIds : get_todo(i)) /\ UNCHANGED <<walk, heap, refs, threads, version>>
    \/ (\E d \in JsonBodies : create_todo(d)) /\ UNCHANGED <<walk, heap, refs, threads, version>>
    \/ (\E i \in TodoIds, d \in JsonBodies : update_todo(i, d)) /\ UNCHANGED <<walk, heap, refs, threads, version>>
    \/ (\E i \in TodoIds : delete_todo(i)) /\ UNCHANGED <<walk, heap, refs, threads, version>>

Spec == Init /\ [][Next]_vars

\* The stores the initial one becomes when all items but some of those in
\* KeptIds have been deleted (by Delete requests on every other id): short
\* stores, the empty one included
KeptIds == {2, 16}

RECURSIVE keep(_, _)
keep(ts, S) ==
    IF ts = << >> THEN << >>
    ELSE IF Head(ts).id \in S
         THEN <<Head(ts)>> \o keep(Tail(ts), S)
         ELSE keep(Tail(ts), S)

InitDeleted ==
    /\ todos \in {keep(InitialTodos, S) : S \in SUBSET KeptIds}
    /\ op = "delete_todo"
    /\ req = [NoRequest EXCEPT !.todo_id = 15]
    /\ status = 200
    /\ body = [message |-> "To-do item deleted",
               _links |-> [collection |-> [href |-> url_for("get_todos", {})]]]
    /\ issued = Ids(InitialTodos)
    /\ created = 0
    /\ walk = NoWalk
    /\ heap = << >> /\ refs = << >> /\ threads = << >> /\ version = 0

SpecDeleted == InitDeleted /\ [][Next]_vars

-----------------------------------------------------------------------------
(* The handlers under a threaded server (app.run serves each request in its  *)
(* own thread): a handler runs statement by statement and another thread's   *)
(* statements may come in between.  Items are dicts the list refers to, so   *)
(* a list built from another shares its dicts.                               *)

Threads == {1, 2}

\* history: no delete_todo of another thread is between building its list and
\* binding it
NoRebuild == [thread |-> 0, request |-> 0]

\* a thread between two requests
Idle == [pc |-> "idle", handler |-> "none", todo_id |-> 0, data |-> EmptyObject,
         todo |-> 0, kept |-> << >>, seen |-> 0, stale |-> NoRebuild, served |-> 0]

\* a thread that takes a request, and a thread that has answered one
accepts(t) == threads[t].pc = "idle" /\ threads[t].served < MaxServed
answered(t) == [Idle EXCEPT !.served = threads[t].served + 1]

\* the bodies and ids of the requests the threads handle
ThreadedBodies == {EmptyObject, [task |-> "Buy milk"]}

\* the dicts a list of addresses refers to
deref(h, rs) == [i \in 1..Len(rs) |-> h[rs[i]]]

\* [todo for todo in todos if todo['id'] != todo_id], as addresses
RECURSIVE kept_refs(_, _, _)
kept_refs(h, rs, todo_id) ==
    IF rs = << >> THEN << >>
    ELSE IF h[Head(rs)].id # todo_id
         THEN <<Head(rs)>> \o kept_refs(h, Tail(rs), todo_id)
         ELSE kept_refs(h, Tail(rs), todo_id)

\* history: the delete_todo of another thread that has built its new list and
\* not yet bound it to the global (the thread and the number of its request)
rebuild(t) ==
    LET rebuilding == {u \in Threads \ {t} :
            threads[u].handler = "delete_todo" /\ threads[u].pc = "rebind"}
    IN  IF rebuilding = {} THEN NoRebuild
        ELSE LET u == CHOOSE u \in rebuilding : TRUE
             IN  [thread |-> u, request |-> threads[u].served]

\* Create requests that have passed validation and not yet appended
appending == {t \in Threads : threads[t].handler = "create_todo" /\ threads[t].pc = "append"}

\* an append that skips an item whose id is already in the list
list_append_unique(rs, address) ==
    IF \E i \in 1..Len(rs) : heap[rs[i]].id = heap[address].id
    THEN rs
    ELSE Append(rs, address)

\* todos.append(new_todo)
list_append(rs, address) == Append(rs, address)

\* create_todo, lines 122-130: validate, then build new_todo from the list
\* as it is now
t_create_build(t, data) ==
    /\ accepts(t)
    /\ IF task_required(data)
       THEN /\ op' = "create_todo"
            /\ req' = [NoRequest EXCEPT !.data = data]
            /\ status' = 400
            /\ body' = [error |-> "Task description is required"]
            /\ threads' = [threads EXCEPT ![t] = answered(t)]
            /\ UNCHANGED heap
       ELSE /\ created + Cardinality(appending) < MaxCreate
            /\ heap' = Append(heap, new_todo(deref(heap, refs), data))
            /\ threads' = [threads EXCEPT ![t] =
                  [threads[t] EXCEPT !.pc = "append", !.handler = "create_todo",
                                     !.data = data, !.todo = Len(heap) + 1,
                                     !.seen = version]]
            /\ UNCHANGED <<op, req, status, body>>
    /\ UNCHANGED <<todos, refs, issued, created, walk, version>>

\* create_todo, line 131: append to the list the global is bound to now
t_create_append(t) ==
    /\ threads[t].handler = "create_todo" /\ threads[t].pc = "append"
    /\ refs' = list_append(refs, threads[t].todo)
    /\ todos' = deref(heap, refs')
    /\ issued' = issued \cup {heap[threads[t].todo].id}
    /\ created' = created + 1
    /\ version' = version + 1
    /\ threads' = [threads EXCEPT ![t].pc = "respond", ![t].stale = rebuild(t)]
    /\ UNCHANGED <<op, req, status, body, walk, heap>>

\* create_todo, lines 133-136
t_create_respond(t) ==
    /\ threads[t].handler = "create_todo" /\ threads[t].pc = "respond"
    /\ op' = "create_todo"
    /\ req' = [NoRequest EXCEPT !.data = threads[t].data]
    /\ status' = 201
    /\ body' = [message |-> "To-do item created",
                todo |-> add_todo_links(heap[threads[t].todo])]
    /\ threads' = [threads EXCEPT ![t] = answered(t)]
    /\ UNCHANGED <<todos, issued, created, walk, heap, refs, version>>

\* update_todo, lines 141-143: find_todo on the list as it is now
t_update_find(t, todo_id, data) ==
    /\ accepts(t)
    /\ LET todo == find_todo(deref(heap, refs), todo_id)
       IN  IF todo = 0
           THEN /\ op' = "update_todo"
                /\ req' = [NoRequest EXCEPT !.todo_id = todo_id, !.data = data]
                /\ status' = 404
                /\ body' = [error |-> "To-do item not found"]
                /\ threads' = [threads EXCEPT ![t] = answered(t)]
           ELSE /\ threads' = [threads EXCEPT ![t] =
                      [threads[t] EXCEPT !.pc = "set_task", !.handler = "update_todo",
                                         !.todo_id = todo_id, !.data = data,
                                         !.todo = refs[todo], !.stale = rebuild(t)]]
                /\ UNCHANGED <<op, req, status, body>>
    /\ UNCHANGED <<todos, issued, created, walk, heap, refs, version>>

\* update_todo, lines 145-146: todo['task'] = data.get('task', todo['task'])
t_update_task(t) ==
    /\ threads[t].handler = "update_todo" /\ threads[t].pc = "set_task"
    /\ heap' = [heap EXCEPT ![threads[t].todo].task =
                    dict_get(threads[t].data, "task", @)]
    /\ todos' = deref(heap', refs)
    /\ threads' = [threads EXCEPT ![t].pc = "set_done",
                                  ![t].stale = IF @ = rebuild(t) THEN @ ELSE NoRebuild]
    /\ UNCHANGED <<op, req, status, body, issued, created, walk, refs, version>>

\* update_todo, line 147: todo['done'] = data.get('done', todo['done'])
t_update_done(t) ==
    /\ threads[t].handler = "update_todo" /\ threads[t].pc = "set_done"
    /\ heap' = [heap EXCEPT ![threads[t].todo].done =
                    dict_get(threads[t].data, "done", @)]
    /\ todos' = deref(heap', refs)
    /\ threads' = [threads EXCEPT ![t].pc = "respond",
                                  ![t].stale = IF @ = rebuild(t) THEN @ ELSE NoRebuild]
    /\ UNCHANGED <<op, req, status, body, issued, created, walk, refs, version>>

\* update_todo, lines 149-152
t_update_respond(t) ==
    /\ threads[t].handler = "update_todo" /\ threads[t].pc = "respond"
    /\ op' = "update_todo"
    /\ req' = [NoRequest EXCEPT !.todo_id = threads[t].todo_id, !.data = threads[t].data]
    /\ status' = 200
    /\ body' = [message |-> "To-do item updated",
                todo |-> add_todo_links(heap[threads[t].todo])]
    /\ threads' = [threads EXCEPT ![t] = answered(t)]
    /\ UNCHANGED <<todos, issued, created, walk, heap, refs, version>>

\* delete_todo, line 158, right-hand side: the new list
t_delete_build(t, todo_id) ==
    /\ accepts(t)
    /\ threads' = [threads EXCEPT ![t] =
          [threads[t] EXCEPT !.pc = "rebind", !.handler = "delete_todo",
                             !.todo_id = todo_id,
                             !.kept = kept_refs(heap, refs, todo_id)]]
    /\ UNCHANGED <<todos, op, req, status, body, issued, created, walk, heap, refs, version>>

\* a Delete that removes from the list the global is bound to now
t_delete_rebind_in_place(t) ==
    /\ threads[t].handler = "delete_todo" /\ threads[t].pc = "rebind"
    /\ refs' = kept_refs(heap, refs, threads[t].todo_id)
    /\ todos' = deref(heap, refs')
    /\ version' = version + 1
    /\ threads' = [threads EXCEPT ![t].pc = "respond"]
    /\ UNCHANGED <<op, req, status, body, issued, created, walk, heap>>

\* delete_todo, line 158, assignment: the global is bound to the new list
t_delete_rebind(t) ==
    /\ threads[t].handler = "delete_todo" /\ threads[t].pc = "rebind"
    /\ refs' = threads[t].kept
    /\ todos' = deref(heap, refs')
    /\ version' = version + 1
    /\ threads' = [threads EXCEPT ![t].pc = "respond"]
    /\ UNCHANGED <<op, req, status, body, issued, created, walk, heap>>

\* delete_todo, lines 160-165
t_delete_respond(t) ==
    /\ threads[t].handler = "delete_todo" /\ threads[t].pc = "respond"
    /\ op' = "delete_todo"
    /\ req' = [NoRequest EXCEPT !.todo_id = threads[t].todo_id]
    /\ status' = 200
    /\ body' = [message |-> "To-do item deleted",
                _links |-> [collection |-> [href |-> url_for("get_todos", {})]]]
    /\ threads' = [threads EXCEPT ![t] = answered(t)]
    /\ UNCHANGED <<todos, issued, created, walk, heap, refs, version>>

InitThreaded ==
    /\ todos = InitialTodos
    /\ op = "none"
    /\ req = NoRequest
    /\ status = 0
    /\ body = NoResponse
    /\ issued = Ids(InitialTodos)
    /\ created = 0
    /\ walk = NoWalk
    /\ heap = InitialTodos
    /\ refs = [i \in 1..Len(InitialTodos) |-> i]
    /\ threads = [t \in Threads |-> Idle]
    /\ version = 0

NextThreaded ==
    \/ \E t \in Threads, d \in ThreadedBodies : t_create_build(t, d)
    \/ \E t \in Threads : t_create_append(t)
    \/ \E t \in Threads : t_create_respond(t)
    \/ \E t \in Threads, i \in TodoIds, d \in ThreadedBodies : t_update_find(t, i, d)
    \/ \E t \in Threads : t_update_task(t)
    \/ \E t \in Threads : t_update_done(t)
    \/ \E t \in Threads : t_update_respond(t)
    \/ \E t \in Threads, i \in TodoIds : t_delete_build(t, i)
    \/ \E t \in Threads : t_delete_rebind(t)
    \/ \E t \in Threads : t_delete_respond(t)

SpecThreaded == InitThreaded /\ [][NextThreaded]_vars

-----------------------------------------------------------------------------
(* A client that pages through the collection *)

\* the items a List response embeds, without their links
embedded_items(response) ==
    [i \in 1..Len(response._embedded.todos) |->
        [id |-> response._embedded.todos[i].id,
         task |-> response._embedded.todos[i].task,
         done |-> response._embedded.todos[i].done]]

\* the sizes the client pages with: the default and the explicit valid ones
WalkSizes == {NoArg} \cup {IntArg(i) : i \in 1..MaxSize}

\* the first page: GET /todos with offset 0
walk_first(sizeArg) ==
    /\ get_todos(IntArg(0), sizeArg)
    /\ walk' = [active |-> TRUE, items |-> embedded_items(body'), pages |-> 1]

\* the following page: GET on the URL of the next link of the page before
walk_next ==
    /\ walk.active
    /\ op = "get_todos" /\ status = 200
    /\ "next" \in DOMAIN body._links
    /\ get_todos(IntArg(LinkValue(body._links.next, "offset")),
                 IntArg(LinkValue(body._links.next, "size")))
    /\ walk' = [active |-> status' = 200,
                items |-> IF status' = 200
                          THEN walk.items \o embedded_items(body')
                          ELSE walk.items,
                pages |-> walk.pages + 1]

\* the initial store, or what deletions have left of it
InitWalk ==
    /\ todos \in {InitialTodos} \cup {keep(InitialTodos, S) : S \in SUBSET KeptIds}
    /\ op = "none"
    /\ req = NoRequest
    /\ status = 0
    /\ body = NoResponse
    /\ issued = Ids(InitialTodos)
    /\ created = 0
    /\ walk = NoWalk
    /\ heap = << >> /\ refs = << >> /\ threads = << >> /\ version = 0

\* the client pages while the store is left alone; a Create or a Delete ends
\* the walk
NextWalk ==
    \/ (\E s \in WalkSizes : walk_first(s)) /\ UNCHANGED <<heap, refs, threads, version>>
    \/ walk_next /\ UNCHANGED <<heap, refs, threads, version>>
    \/ (\E d \in JsonBodies : create_todo(d))
            /\ walk' = NoWalk /\ UNCHANGED <<heap, refs, threads, version>>
    \/ (\E i \in TodoIds : delete_todo(i))
            /\ walk' = NoWalk /\ UNCHANGED <<heap, refs, threads, version>>

SpecWalk == InitWalk /\ [][NextWalk]_vars

-----------------------------------------------------------------------------
(* Properties of List (GET /todos) *)

\* the offset and the size a List request asks for, the defaults included
ReqOffset == IF req.offset.given /\ req.offset.isint THEN req.offset.val ELSE 0
ReqSize == IF req.size.given /\ req.size.isint THEN req.size.val ELSE 5

ValidList == op = "get_todos" /\ ReqOffset >= 0 /\ ReqSize > 0

\* a link to the collection route with exactly the parameters offset and size
PageLink(link, offset, size) ==
    /\ link.href.endpoint = "get_todos"
    /\ link.href.values = {<<"offset", offset>>, <<"size", size>>}

\* C1: a List request with offset >= 0 and size > 0 on a store of N items is
\* answered with links that always hold self and create, hold prev exactly
\* when offset > 0, and hold next exactly when offset + size < N.
C1_LinkPresence ==
    ValidList =>
        /\ status = 200
        /\ {"self", "create"} \subseteq DOMAIN body._links
        /\ DOMAIN body._links \subseteq {"self", "create", "prev", "next"}
        /\ ("prev" \in DOMAIN body._links) <=> (ReqOffset > 0)
        /\ ("next" \in DOMAIN body._links) <=> (ReqOffset + ReqSize < Len(todos))

\* a page that ends exactly at the end of the store: prev but no next
C1_Witness ==
    /\ ValidList /\ status = 200
    /\ ReqOffset > 0
    /\ ReqOffset + ReqSize = Len(todos)
    /\ "prev" \in DOMAIN body._links
    /\ "next" \notin DOMAIN body._links

\* C2: the self link carries the requested offset and size; an emitted prev
\* link carries max(offset - size, 0) and the requested size; an emitted next
\* link carries offset + size and the requested size.
C2_LinkTargets ==
    (ValidList /\ status = 200) =>
        /\ PageLink(body._links.self, ReqOffset, ReqSize)
        /\ "prev" \in DOMAIN body._links =>
              /\ PageLink(body._links.prev,
                          IF ReqOffset >= ReqSize THEN ReqOffset - ReqSize ELSE 0,
                          ReqSize)
              /\ LinkValue(body._links.prev, "offset") >= 0
        /\ "next" \in DOMAIN body._links =>
              PageLink(body._links.next, ReqOffset + ReqSize, ReqSize)

\* a prev link whose offset was floored at zero (offset < size)
C2_Witness ==
    /\ ValidList /\ status = 200
    /\ ReqOffset > 0 /\ ReqOffset < ReqSize
    /\ "prev" \in DOMAIN body._links
    /\ LinkValue(body._links.prev, "offset") = 0
    /\ "next" \in DOMAIN body._links

\* C3: the page of a valid List response is the requested offset, the
\* requested size and the number of items of the whole store, whatever the
\* number of embedded items.
C3_PageEcho ==
    ValidList =>
        /\ status = 200
        /\ body.page = [offset |-> ReqOffset, size |-> ReqSize,
                        total_items |-> Len(todos)]

\* a short last page: fewer items embedded than page.size
C3_Witness ==
    /\ ValidList /\ status = 200
    /\ Len(body._embedded.todos) > 0
    /\ Len(body._embedded.todos) < body.page.size
    /\ body.page.total_items > Len(body._embedded.todos)

\* C4: the embedded items of a valid List response are the store's items at
\* positions offset .. min(offset + size, N) - 1 (counted from 0), in store
\* order, with the same id, task and done; none when offset >= N.
C4_Window ==
    (ValidList /\ status = 200) =>
        LET n == Len(todos)
            stop == IF ReqOffset + ReqSize < n THEN ReqOffset + ReqSize ELSE n
            count == IF stop > ReqOffset THEN stop - ReqOffset ELSE 0
            embedded == body._embedded.todos
        IN  /\ Len(embedded) = count
            /\ \A i \in 1..count :
                  /\ embedded[i].id = todos[ReqOffset + i].id
                  /\ embedded[i].task = todos[ReqOffset + i].task
                  /\ embedded[i].done = todos[ReqOffset + i].done

\* a window truncated to the tail of the store, starting after its first item
C4_Witness ==
    /\ ValidList /\ status = 200
    /\ ReqOffset > 0
    /\ ReqOffset + ReqSize > Len(todos)
    /\ Len(body._embedded.todos) = Len(todos) - ReqOffset
    /\ Len(body._embedded.todos) > 0

\* C5: List answers 400 with an error payload exactly when offset < 0 or
\* size <= 0, and 200 for every other offset and size, an offset at or beyond
\* the end of the store included.
C5_Validation ==
    op = "get_todos" =>
        IF ReqOffset < 0 \/ ReqSize <= 0
        THEN status = 400 /\ DOMAIN body = {"error"}
        ELSE status = 200 /\ DOMAIN body = {"_links", "_embedded", "page"}

\* a size of zero with a valid offset is rejected
C5_Witness ==
    /\ op = "get_todos" /\ status = 400
    /\ req.size = IntArg(0)
    /\ ReqOffset >= 0

-----------------------------------------------------------------------------
(* Properties of the store and of Create, Update *)

\* C6: a Create request whose body has a task answers 201 and appends one
\* item at the end of the store: its id is one more than the largest id in
\* the store (1 when the store is empty), its task is the given one, its done
\* the given one (false when omitted); the items stored before keep their
\* values and order.
C6_CreateAppends ==
    [][(op' = "create_todo" /\ "task" \in DOMAIN req'.data) =>
        /\ status' = 201
        /\ Len(todos') = Len(todos) + 1
        /\ \A i \in 1..Len(todos) : todos'[i] = todos[i]
        /\ LET item == todos'[Len(todos')]
           IN  /\ IF todos = << >> THEN item.id = 1
                  ELSE /\ \E i \in 1..Len(todos) : item.id = todos[i].id + 1
                       /\ \A i \in 1..Len(todos) : item.id > todos[i].id
               /\ item.task = req'.data.task
               /\ item.done = IF "done" \in DOMAIN req'.data THEN req'.data.done ELSE FALSE
    ]_vars

\* a Create on the empty store with done given as true: the item gets id 1
C6_Witness ==
    /\ op = "create_todo" /\ status = 201
    /\ Len(todos) = 1
    /\ todos[1].id = 1
    /\ "done" \in DOMAIN req.data
    /\ todos[1].done = TRUE

\* C7: in every state reached from the initial 16-item store by requests
\* handled one at a time, the ids of the stored items are positive integers
\* and pairwise distinct.
C7_IdsPositiveDistinct ==
    /\ \A i \in 1..Len(todos) : todos[i].id \in Nat /\ todos[i].id > 0
    /\ \A i, j \in 1..Len(todos) : todos[i].id = todos[j].id => i = j

\* a store with a gap in its ids: an item was created after the initial last
\* item and the initial last item was deleted, then another item was created
C7_Witness ==
    /\ created >= 2
    /\ 16 \notin Ids(todos)
    /\ {17, 18} \subseteq Ids(todos)

\* C8: the id given to a newly created item is strictly greater than every
\* id any earlier item has carried, the deleted ones included, so that no id
\* is used again.
C8_IdsMonotonic ==
    [][(op' = "create_todo" /\ status' = 201) =>
        \A i \in issued : body'.todo.id > i]_vars

\* C9: every stored item has a non-empty task, and Create answers 400 to a
\* request whose task is missing or empty.
C9_TaskNonEmpty ==
    /\ \A i \in 1..Len(todos) : todos[i].task # ""
    /\ (op = "create_todo" /\ dict_get(req.data, "task", "") = "") => status = 400

\* C10: an Update of a stored id answers 200, overwrites the fields the body
\* provides and keeps the others, leaves the item's id and position and every
\* other item unchanged, and answers with the merged values; an Update of an
\* id that is not stored answers 404.
C10_UpdateMerges ==
    [][op' = "update_todo" =>
        IF \E i \in 1..Len(todos) : todos[i].id = req'.todo_id
        THEN /\ status' = 200
             /\ Len(todos') = Len(todos)
             /\ \A i \in 1..Len(todos) :
                  IF todos[i].id = req'.todo_id
                  THEN /\ todos'[i].id = todos[i].id
                       /\ todos'[i].task = IF "task" \in DOMAIN req'.data
                                           THEN req'.data.task ELSE todos[i].task
                       /\ todos'[i].done = IF "done" \in DOMAIN req'.data
                                           THEN req'.data.done ELSE todos[i].done
                       /\ body'.todo.id = todos'[i].id
                       /\ body'.todo.task = todos'[i].task
                       /\ body'.todo.done = todos'[i].done
                  ELSE todos'[i] = todos[i]
        ELSE status' = 404 /\ todos' = todos
    ]_vars

\* an Update that provides only the task of an item that was done
C10_Witness ==
    /\ op = "update_todo" /\ status = 200
    /\ DOMAIN req.data = {"task"}
    /\ body.todo.task = req.data.task
    /\ body.todo.done = TRUE
    /\ \E i \in 1..Len(todos) : todos[i].id = req.todo_id /\ todos[i].done = TRUE

-----------------------------------------------------------------------------
(* Properties of Delete, of the self link and of the frame of the handlers *)

\* C11: Delete always answers 200; it removes the items with the given id
\* and keeps the others in their order; on an id that is not stored it leaves
\* the store as it is; after it the id is not stored, so a second Delete of
\* the same id changes nothing.
C11_DeleteIdempotent ==
    [][op' = "delete_todo" =>
        LET other(t) == t.id # req'.todo_id
        IN  /\ status' = 200
            /\ todos' = SelectSeq(todos, other)
            /\ (\A i \in 1..Len(todos) : other(todos[i])) => todos' = todos
            /\ \A i \in 1..Len(todos') : other(todos'[i])
    ]_vars

\* the initial last item deleted from between its neighbours
C11_Witness ==
    /\ op = "delete_todo" /\ status = 200
    /\ req.todo_id = 16
    /\ Len(todos) = 16
    /\ todos[15].id = 15 /\ todos[16].id = 17

\* C12: a Get on the id of the self link of an item representation of the
\* last response (of Get, List, Create or Update) answers 200 with the same
\* id, task and done.
C12_SelfRoundTrip ==
    [][op' = "get_todo" =>
        \A r \in ItemReps :
            (/\ r._links.self.href.endpoint = "get_todo"
             /\ LinkValue(r._links.self, "todo_id") = req'.todo_id)
            => /\ status' = 200
               /\ body'.id = r.id
               /\ body'.task = r.task
               /\ body'.done = r.done
    ]_vars

\* a Get of an item that a Create stored after the initial last item was
\* deleted
C12_Witness ==
    /\ op = "get_todo" /\ status = 200
    /\ body.id = 17
    /\ body.task = "Buy milk"
    /\ 16 \notin Ids(todos)

\* C16: the store changes only in a Create answered 201, an Update answered
\* 200 or a Delete; a request answered 400 or 404, a List and a Get leave the
\* items, their values and their order as they were.
C16_Frame ==
    [][/\ todos' # todos =>
            \/ op' = "create_todo" /\ status' = 201
            \/ op' = "update_todo" /\ status' = 200
            \/ op' = "delete_todo"
       /\ (status' \in {400, 404} \/ op' \in {"get_todos", "get_todo"}) =>
            todos' = todos
    ]_vars

\* a Create rejected for its missing task on a store that has changed before
C16_Witness ==
    /\ op = "create_todo" /\ status = 400
    /\ "task" \notin DOMAIN req.data
    /\ created >= 1
    /\ Len(todos) = 17

-----------------------------------------------------------------------------
(* Properties of paging *)

\* C15: on a store that is not changed meanwhile, a client that starts at
\* offset 0 with a size > 0 and follows the next links has, after every page,
\* collected the store's items from the first one on, in store order and each
\* once; a next link is offered exactly while items are left; the page without
\* a next link completes the whole store, and that takes no more requests
\* than the store has items (one request for the empty store).
C15_WalkCoversStore ==
    walk.active =>
        /\ op = "get_todos" /\ status = 200
        /\ Len(walk.items) <= Len(todos)
        /\ walk.items = SubSeq(todos, 1, Len(walk.items))
        /\ ("next" \in DOMAIN body._links) <=> (Len(walk.items) < Len(todos))
        /\ "next" \notin DOMAIN body._links => walk.items = todos
        /\ walk.pages <= (IF Len(todos) = 0 THEN 1 ELSE Len(todos))

\* a walk of at least three pages that ended on a short last page
C15_Witness ==
    /\ walk.active
    /\ walk.pages >= 3
    /\ "next" \notin DOMAIN body._links
    /\ Len(body._embedded.todos) > 0
    /\ Len(body._embedded.todos) < body.page.size
    /\ walk.items = todos

-----------------------------------------------------------------------------
(* Properties of the threaded server *)

\* a thread at a position of a handler
at(t, handler, pc) == threads[t].handler = handler /\ threads[t].pc = pc

\* the addresses the global list holds
Listed == {refs[i] : i \in 1..Len(refs)}

\* the delete_todo a thread's statement came in between has bound its list
rebound(w) ==
    /\ w # NoRebuild
    /\ \/ threads[w.thread].served > w.request
       \/ threads[w.thread].pc = "respond"

\* C13: when two Create requests have both built their item from the same
\* state of the list, before either appended, the two items have the same id,
\* and once both have appended the store holds two items with that id.
C13_DuplicateIds ==
    \A t, u \in Threads :
        (t # u /\ threads[t].seen = threads[u].seen
               /\ threads[t].handler = "create_todo" /\ threads[t].pc \in {"append", "respond"}
               /\ threads[u].handler = "create_todo" /\ threads[u].pc \in {"append", "respond"})
        => /\ heap[threads[t].todo].id = heap[threads[u].todo].id
           /\ (threads[t].pc = "respond" /\ threads[u].pc = "respond") =>
                 \E i, j \in 1..Len(todos) :
                    /\ i # j
                    /\ refs[i] = threads[t].todo /\ refs[j] = threads[u].todo
                    /\ todos[i].id = todos[j].id

\* both Create requests have appended and are about to answer 201: the last
\* two items of the store share the id 17
C13_Witness ==
    /\ \A t \in Threads : at(t, "create_todo", "respond")
    /\ threads[1].seen = threads[2].seen
    /\ Len(todos) = 18
    /\ todos[17].id = 17 /\ todos[18].id = 17

\* C14 as stated: a Create, and likewise an Update of another item, that
\* comes in between a Delete's building of the new list and its binding is
\* answered with success while its effect is absent from the store once the
\* Delete has bound its list.
C14_LostCreateAndUpdate ==
    \A t \in Threads :
        /\ (at(t, "create_todo", "respond") /\ rebound(threads[t].stale))
           => threads[t].todo \notin Listed
        /\ (/\ at(t, "update_todo", "respond")
            /\ "task" \in DOMAIN threads[t].data
            /\ threads[t].stale # NoRebuild
            /\ at(threads[t].stale.thread, "delete_todo", "respond")
            /\ threads[threads[t].stale.thread].served = threads[t].stale.request
            /\ threads[threads[t].stale.thread].todo_id # threads[t].todo_id)
           => ~ \E i \in 1..Len(todos) :
                    /\ todos[i].id = threads[t].todo_id
                    /\ todos[i].task = threads[t].data.task

\* C14, amended: a Create that appends between a Delete's building of the
\* new list and its binding is answered 201 while its item is not in the
\* store once the Delete has bound its list.  An Update of another item made
\* in between is not lost when that item was in the store as the Delete built
\* its list: the new list refers to the same item, which carries the updated
\* values; it is lost only together with an item that was itself appended in
\* between.
C14_LostCreateOnly ==
    \A t \in Threads :
        /\ (at(t, "create_todo", "respond") /\ rebound(threads[t].stale))
           => threads[t].todo \notin Listed
        /\ (/\ at(t, "update_todo", "respond")
            /\ threads[t].stale # NoRebuild
            /\ at(threads[t].stale.thread, "delete_todo", "respond")
            /\ threads[threads[t].stale.thread].served = threads[t].stale.request
            /\ threads[threads[t].stale.thread].todo_id # threads[t].todo_id)
           => LET kept == threads[threads[t].stale.thread].kept
              IN  IF \E k \in 1..Len(kept) : kept[k] = threads[t].todo
                  THEN \E i \in 1..Len(todos) :
                          /\ refs[i] = threads[t].todo
                          /\ todos[i].id = threads[t].todo_id
                          /\ "task" \in DOMAIN threads[t].data =>
                                  todos[i].task = threads[t].data.task
                          /\ "done" \in DOMAIN threads[t].data =>
                                  todos[i].done = threads[t].data.done
                  ELSE threads[t].todo \notin Listed

\* a Create about to answer 201 for an item with id 17 that the Delete of
\* the other thread, now bound, has left out of the store
C14_Witness ==
    \E t \in Threads :
        /\ at(t, "create_todo", "respond")
        /\ rebound(threads[t].stale)
        /\ heap[threads[t].todo].id = 17
        /\ 17 \notin Ids(todos)
        /\ at(threads[t].stale.thread, "delete_todo", "respond")

====
